---- MODULE Spec2Model ----
(***************************************************************************)
(* Onyt: a poller that keeps an in-memory snapshot (State) of a YouTube    *)
(* channel.  The model follows main.go: the driver loop of main and the    *)
(* steps of refresh, one action per step, with the upstream services       *)
(* (channel lookup, live page, playlist listing, video batch lookup)       *)
(* answering nondeterministically; before the loop, the start of main     *)
(* (flags, API client, server goroutine); beside it, the HTTP server       *)
(* goroutine and its handlers.                                             *)
(*                                                                         *)
(* A Go pointer is a sequence of length 0 (nil) or 1 (the pointee).  A nil *)
(* slice and an empty slice are both the empty sequence.                   *)
(***************************************************************************)
EXTENDS Integers, Sequences, FiniteSets, TLC

\* MaxResults(25) of the playlist request, scaled down for model checking.
MaxResults == 1

\* Requests the HTTP server handles at the same time.
MaxHandlers == 1

Nil == <<>>

SeqsUpTo(S, n) == UNION {[1..k -> S] : k \in 0..n}

\* youtube.Channel: the two fields refresh reads.
Channels == {[Id |-> "UC1", Uploads |-> "UU1"], [Id |-> "UC2", Uploads |-> "UU2"]}

VideoIds == {"X", "A"}

\* youtube.Video, identified by its Id.
Videos == {[Id |-> i] : i \in VideoIds}

\* youtube.PlaylistItem: ContentDetails.VideoId.
PlaylistItems == {[VideoId |-> i] : i \in VideoIds}

\* The zero-valued State built by new(State).
ZeroState == [Channel |-> Nil, LiveVideo |-> Nil, Videos |-> <<>>]

\* Result of one upstream call as refresh sees it: (value, err).
Ok(v) == [st |-> "ok", v |-> v]
Failed(zero) == [st |-> "err", v |-> zero]
NotCalled(zero) == [st |-> "none", v |-> zero]

\* Responses of Channels.List: an error, or a list of items.
ChannelsListResponses ==
    {[err |-> TRUE, Items |-> <<>>]} \cup
    {[err |-> FALSE, Items |-> s] : s \in SeqsUpTo(Channels, 1)}

fetchChannel(resp) ==
    IF resp.err THEN Failed(Nil)
    ELSE IF Len(resp.Items) > 0 THEN Ok(<<resp.Items[1]>>)
    ELSE Ok(Nil)

\* The live page as fetchLiveVideoId sees it: the request or the HTML parse
\* fails, or the document has no canonical link, or its href is / is not a
\* watch URL (watch |-> TRUE, with the text after "v=").
LivePages ==
    {[err |-> TRUE, canonical |-> FALSE, watch |-> FALSE, v |-> ""]} \cup
    {[err |-> FALSE, canonical |-> FALSE, watch |-> FALSE, v |-> ""]} \cup
    {[err |-> FALSE, canonical |-> TRUE, watch |-> FALSE, v |-> ""]} \cup
    {[err |-> FALSE, canonical |-> TRUE, watch |-> TRUE, v |-> i] : i \in VideoIds}

fetchLiveVideoId(page) ==
    IF page.err THEN Failed("")
    ELSE IF page.canonical /\ page.watch THEN Ok(page.v)
    ELSE Ok("")

\* Responses of PlaylistItems.List with MaxResults: at most MaxResults items.
PlaylistItemsListResponsesNoCap ==
    {[err |-> TRUE, Items |-> <<>>]} \cup
    {[err |-> FALSE, Items |-> s] : s \in SeqsUpTo(PlaylistItems, MaxResults + 1)}

PlaylistItemsListResponses ==
    {[err |-> TRUE, Items |-> <<>>]} \cup
    {[err |-> FALSE, Items |-> s] : s \in SeqsUpTo(PlaylistItems, MaxResults)}

fetchPlaylistItems(resp) ==
    IF resp.err THEN Failed(<<>>) ELSE Ok(resp.Items)

\* Responses of Videos.List for the requested ids: an error, or any list of
\* records, in any order, with at most one record per requested id.
VideosListResponses(ids) ==
    {[err |-> TRUE, Items |-> <<>>]} \cup
    {[err |-> FALSE, Items |-> s] : s \in SeqsUpTo(Videos, Len(ids))}

fetchVideos(resp) ==
    IF resp.err THEN Failed(<<>>) ELSE Ok(resp.Items)

BuildVideoIdsLiveLast(liveId, items) ==
    [i \in 1..Len(items) |-> items[i].VideoId] \o
    (IF liveId # "" THEN <<liveId>> ELSE <<>>)

\* Lines 149-157: the live id first (if non-empty), then the playlist's ids.
BuildVideoIds(liveId, items) ==
    (IF liveId # "" THEN <<liveId>> ELSE <<>>) \o
    [i \in 1..Len(items) |-> items[i].VideoId]

PartitionKeepFirst(vs, liveId) ==
    IF Len(vs) > 0 /\ vs[1].Id = liveId
    THEN [liveVideo |-> <<vs[1]>>, videos |-> vs]
    ELSE [liveVideo |-> Nil, videos |-> vs]

RECURSIVE Without(_, _)
Without(vs, id) ==
    IF vs = <<>> THEN <<>>
    ELSE IF Head(vs).Id = id THEN Without(Tail(vs), id)
    ELSE <<Head(vs)>> \o Without(Tail(vs), id)

PartitionById(vs, liveId) ==
    IF \E i \in 1..Len(vs) : vs[i].Id = liveId
    THEN [liveVideo |-> <<CHOOSE v \in Videos : v.Id = liveId>>,
          videos |-> Without(vs, liveId)]
    ELSE [liveVideo |-> Nil, videos |-> vs]

PartitionFirstIsLive(vs, liveId) ==
    IF Len(vs) > 0
    THEN [liveVideo |-> <<vs[1]>>, videos |-> Tail(vs)]
    ELSE [liveVideo |-> Nil, videos |-> vs]

\* Lines 174-179: the first record is the live video iff it has the live id.
Partition(vs, liveId) ==
    IF Len(vs) > 0 /\ vs[1].Id = liveId
    THEN [liveVideo |-> <<vs[1]>>, videos |-> Tail(vs)]
    ELSE [liveVideo |-> Nil, videos |-> vs]

VARIABLES
    pc,             \* position of the main goroutine
    state,          \* the global snapshot
    channel, liveVideoId, playlistItems, videoIds, videos, liveVideo,
                    \* locals of refresh
    err,            \* what the last call of refresh returned
    before,         \* the snapshot when the current call of refresh began
    answers,        \* what upstream answered to each call of a cycle
    same,           \* this cycle's answers so far equal the previous cycle's
    succeeded,      \* some call of refresh has returned nil
    flags,          \* which required flags the command line / environment gives
    srv,            \* the goroutine of startWebServer
    serving,        \* handler goroutines that have not encoded state yet
    exitCode        \* exit code of the process, -1 while it runs

locals == <<channel, liveVideoId, playlistItems, videoIds, videos, liveVideo>>
history == <<before, answers, same, succeeded>>
server == <<srv, serving>>
vars == <<pc, state, locals, err, history, flags, server, exitCode>>

NoAnswers ==
    [channel |-> NotCalled(Nil), live |-> NotCalled(""),
     playlist |-> NotCalled(<<>>), videos |-> NotCalled(<<>>)]

RefreshPcs ==
    {"fetchLiveVideoId", "fetchPlaylistItems", "buildVideoIds", "writeChannel",
     "writeVideosEmpty", "writeLiveVideoNil", "fetchVideos", "partition",
     "writeLiveVideo", "writeVideos"}

Init ==
    /\ pc = "run"
    /\ flags \in [key : BOOLEAN, channel : BOOLEAN]
    /\ srv = "notStarted"
    /\ serving = 0
    /\ exitCode = -1
    /\ state = ZeroState
    /\ channel = Nil /\ liveVideoId = "" /\ playlistItems = <<>>
    /\ videoIds = <<>> /\ videos = <<>> /\ liveVideo = Nil
    /\ err = "nil"
    /\ before = ZeroState
    /\ answers = NoAnswers
    /\ same = FALSE
    /\ succeeded = FALSE

\* The process runs: main has neither returned nor been ended.
Alive == exitCode = -1

\* Lines 195-218, 242-244: app.Run checks the required flags before Action.
\* When one is missing it returns an error, and main builds a fatal log
\* event with log.Fatal().Err(err) that is never sent (no Msg): nothing is
\* written, os.Exit is not called, and main returns.
Main_Run ==
    /\ pc = "run"
    /\ IF flags.key /\ flags.channel
       THEN pc' = "newService" /\ UNCHANGED exitCode
       ELSE pc' = "exited" /\ exitCode' = 0
    /\ UNCHANGED <<state, locals, err, history, flags, server>>

\* Lines 220-228: log.Fatal()...Msg(...) exits with code 1.
Main_NewService ==
    /\ pc = "newService"
    /\ \E ok \in BOOLEAN :
         IF ok THEN pc' = "goServer" /\ UNCHANGED exitCode
         ELSE pc' = "exited" /\ exitCode' = 1
    /\ UNCHANGED <<state, locals, err, history, flags, server>>

\* Line 230.
Main_GoServer ==
    /\ pc = "goServer"
    /\ srv' = "starting"
    /\ pc' = "refresh"
    /\ UNCHANGED <<state, locals, err, history, flags, serving, exitCode>>

\* Line 42: ListenAndServe binds the port and serves.
Server_Listen ==
    /\ Alive /\ srv = "starting"
    /\ srv' = "listening"
    /\ UNCHANGED <<pc, state, locals, err, history, flags, serving, exitCode>>

Server_BindFail_Fatal ==
    /\ Alive /\ srv = "starting"
    /\ srv' = "failed"
    /\ pc' = "exited"
    /\ exitCode' = 1
    /\ UNCHANGED <<state, locals, err, history, flags, serving>>

\* Line 42: ListenAndServe returns an error, startWebServer returns it and the
\* goroutine ends; nobody reads the error.
Server_BindFail ==
    /\ Alive /\ srv = "starting"
    /\ srv' = "failed"
    /\ UNCHANGED <<pc, state, locals, err, history, flags, serving, exitCode>>

\* Line 34: a request arrives and its handler starts, on a goroutine of its own.
Handler_Accept ==
    /\ Alive /\ srv = "listening"
    /\ serving < MaxHandlers
    /\ serving' = serving + 1
    /\ UNCHANGED <<pc, state, locals, err, history, flags, srv, exitCode>>

\* Lines 35-39: the handler encodes state as it is now, without a lock, and
\* ends.
Handler_Encode ==
    /\ Alive /\ serving > 0
    /\ serving' = serving - 1
    /\ UNCHANGED <<pc, state, locals, err, history, flags, srv, exitCode>>

\* refresh returns e to the loop of main; its frame is gone.
Return(e) ==
    /\ pc' = "returned"
    /\ err' = e
    /\ channel' = Nil /\ liveVideoId' = "" /\ playlistItems' = <<>>
    /\ videoIds' = <<>> /\ videos' = <<>> /\ liveVideo' = Nil
    /\ succeeded' = (succeeded \/ e = "nil")

\* Lines 233, 130-135.
Refresh_FetchChannel ==
    /\ pc = "refresh"
    /\ before' = state
    /\ \E resp \in ChannelsListResponses :
         LET a == fetchChannel(resp) IN
         /\ same' = (answers.channel = a)
         /\ answers' = IF answers.channel = a THEN answers
                       ELSE [NoAnswers EXCEPT !.channel = a]
         /\ IF a.st = "err"
            THEN Return("channels.list") /\ UNCHANGED state
            ELSE /\ channel' = a.v
                 /\ pc' = "fetchLiveVideoId"
                 /\ UNCHANGED <<state, liveVideoId, playlistItems, videoIds,
                                videos, liveVideo, err, succeeded>>

\* Lines 137-141.  channel.Id on a nil channel is a nil pointer dereference:
\* the runtime panics and the process ends.
Refresh_FetchLiveVideoId ==
    /\ pc = "fetchLiveVideoId"
    /\ IF channel = Nil
       THEN /\ pc' = "crashed"
            /\ exitCode' = 2
            /\ UNCHANGED <<state, locals, err, history>>
       ELSE \E page \in LivePages :
            LET a == fetchLiveVideoId(page) IN
            /\ UNCHANGED exitCode
            /\ same' = (same /\ answers.live = a)
            /\ answers' = IF same /\ answers.live = a THEN answers
                          ELSE [answers EXCEPT !.live = a,
                                               !.playlist = NotCalled(<<>>),
                                               !.videos = NotCalled(<<>>)]
            /\ IF a.st = "err"
               THEN Return("live page") /\ UNCHANGED <<state, before>>
               ELSE /\ liveVideoId' = a.v
                    /\ pc' = "fetchPlaylistItems"
                    /\ UNCHANGED <<state, channel, playlistItems, videoIds,
                                   videos, liveVideo, err, before, succeeded>>

\* Lines 143-147.
Refresh_FetchPlaylistItems ==
    /\ pc = "fetchPlaylistItems"
    /\ \E resp \in PlaylistItemsListResponses :
         LET a == fetchPlaylistItems(resp) IN
         /\ same' = (same /\ answers.playlist = a)
         /\ answers' = IF same /\ answers.playlist = a THEN answers
                       ELSE [answers EXCEPT !.playlist = a,
                                            !.videos = NotCalled(<<>>)]
         /\ IF a.st = "err"
            THEN Return("playlistItems.list") /\ UNCHANGED <<state, before>>
            ELSE /\ playlistItems' = a.v
                 /\ pc' = "buildVideoIds"
                 /\ UNCHANGED <<state, channel, liveVideoId, videoIds, videos,
                                liveVideo, err, before, succeeded>>

\* Lines 149-157.
Refresh_BuildVideoIds ==
    /\ pc = "buildVideoIds"
    /\ videoIds' = BuildVideoIds(liveVideoId, playlistItems)
    /\ pc' = "writeChannel"
    /\ UNCHANGED <<state, channel, liveVideoId, playlistItems, videos,
                   liveVideo, err, history>>

Refresh_WriteChannel_ResetLive ==
    /\ pc = "writeChannel"
    /\ state' = [state EXCEPT !.Channel = channel, !.LiveVideo = Nil]
    /\ pc' = IF Len(videoIds) = 0 THEN "writeVideosEmpty" ELSE "fetchVideos"
    /\ UNCHANGED <<locals, err, history>>

\* Lines 159-161.
Refresh_WriteChannel ==
    /\ pc = "writeChannel"
    /\ state' = [state EXCEPT !.Channel = channel]
    /\ pc' = IF Len(videoIds) = 0 THEN "writeVideosEmpty" ELSE "fetchVideos"
    /\ UNCHANGED <<locals, err, history>>

\* Line 162.
Refresh_WriteVideosEmpty ==
    /\ pc = "writeVideosEmpty"
    /\ state' = [state EXCEPT !.Videos = <<>>]
    /\ pc' = "writeLiveVideoNil"
    /\ UNCHANGED <<locals, err, history>>

Refresh_WriteLiveVideoNil_Forgotten ==
    /\ pc = "writeLiveVideoNil"
    /\ UNCHANGED state
    /\ Return("nil")
    /\ UNCHANGED <<before, answers, same>>

\* Lines 163-165.
Refresh_WriteLiveVideoNil ==
    /\ pc = "writeLiveVideoNil"
    /\ state' = [state EXCEPT !.LiveVideo = Nil]
    /\ Return("nil")
    /\ UNCHANGED <<before, answers, same>>

\* Lines 168-172.
Refresh_FetchVideos ==
    /\ pc = "fetchVideos"
    /\ \E resp \in VideosListResponses(videoIds) :
         LET a == fetchVideos(resp) IN
         /\ same' = (same /\ answers.videos = a)
         /\ answers' = [answers EXCEPT !.videos = a]
         /\ IF a.st = "err"
            THEN Return("videos.list") /\ UNCHANGED <<state, before>>
            ELSE /\ videos' = a.v
                 /\ pc' = "partition"
                 /\ UNCHANGED <<state, channel, liveVideoId, playlistItems,
                                videoIds, liveVideo, err, before, succeeded>>

\* Lines 174-179.
Refresh_Partition ==
    /\ pc = "partition"
    /\ liveVideo' = Partition(videos, liveVideoId).liveVideo
    /\ videos' = Partition(videos, liveVideoId).videos
    /\ pc' = "writeLiveVideo"
    /\ UNCHANGED <<state, channel, liveVideoId, playlistItems, videoIds, err,
                   history>>

\* Line 181.
Refresh_WriteLiveVideo ==
    /\ pc = "writeLiveVideo"
    /\ state' = [state EXCEPT !.LiveVideo = liveVideo]
    /\ pc' = "writeVideos"
    /\ UNCHANGED <<locals, err, history>>

Refresh_WriteVideos_Append ==
    /\ pc = "writeVideos"
    /\ state' = [state EXCEPT !.Videos = state.Videos \o videos]
    /\ Return("nil")
    /\ UNCHANGED <<before, answers, same>>

\* Lines 182-184.
Refresh_WriteVideos ==
    /\ pc = "writeVideos"
    /\ state' = [state EXCEPT !.Videos = videos]
    /\ Return("nil")
    /\ UNCHANGED <<before, answers, same>>

Main_LogErr_NoSleep ==
    /\ pc = "returned"
    /\ pc' = "refresh"
    /\ UNCHANGED <<state, locals, err, history>>

\* Lines 233-235: an error is logged, nothing else.
Main_LogErr ==
    /\ pc = "returned"
    /\ pc' = "sleep"
    /\ UNCHANGED <<state, locals, err, history>>

\* Line 237, and back to the head of the loop.
Main_Sleep ==
    /\ pc = "sleep"
    /\ pc' = "refresh"
    /\ UNCHANGED <<state, locals, err, history>>

\* What the steps of the loop and of refresh leave alone.
process == <<flags, server, exitCode>>

\* The main goroutine.
MainNext ==
    \/ Main_Run
    \/ Main_NewService
    \/ Main_GoServer
    \/ Refresh_FetchLiveVideoId /\ UNCHANGED <<flags, server>>
    \/ Refresh_FetchChannel /\ UNCHANGED process
    \/ Refresh_FetchPlaylistItems /\ UNCHANGED process
    \/ Refresh_BuildVideoIds /\ UNCHANGED process
    \/ Refresh_WriteChannel /\ UNCHANGED process
    \/ Refresh_WriteVideosEmpty /\ UNCHANGED process
    \/ Refresh_WriteLiveVideoNil /\ UNCHANGED process
    \/ Refresh_FetchVideos /\ UNCHANGED process
    \/ Refresh_Partition /\ UNCHANGED process
    \/ Refresh_WriteLiveVideo /\ UNCHANGED process
    \/ Refresh_WriteVideos /\ UNCHANGED process
    \/ Main_LogErr /\ UNCHANGED process
    \/ Main_Sleep /\ UNCHANGED process

Next ==
    \/ MainNext
    \/ Server_Listen
    \/ Server_BindFail
    \/ Handler_Accept
    \/ Handler_Encode

Spec == Init /\ [][Next]_vars

TypeOK ==
    /\ pc \in RefreshPcs \cup {"run", "newService", "goServer", "exited",
                             "refresh", "returned", "sleep", "crashed"}
    /\ srv \in {"notStarted", "starting", "listening", "failed"}
    /\ serving \in 0..MaxHandlers
    /\ exitCode \in {-1, 0, 1, 2}
    /\ state.Channel \in SeqsUpTo(Channels, 1)
    /\ state.LiveVideo \in SeqsUpTo(Videos, 1)
    /\ state.Videos \in SeqsUpTo(Videos, MaxResults + 1)
    /\ err \in {"nil", "channels.list", "live page", "playlistItems.list",
                "videos.list"}
    /\ same \in BOOLEAN /\ succeeded \in BOOLEAN

(***************************************************************************)
(* Properties.  In a state with pc = "returned" a call of refresh has just *)
(* returned err: before is the snapshot the call started from and answers  *)
(* holds what upstream answered during the call.                           *)
(***************************************************************************)
Returned == pc = "returned"
Response == answers.videos.v
LiveId == answers.live.v

\* C1: a refresh cycle that fails at any step leaves channel, liveVideo and
\* videos exactly as they were before the call.
C1_FailedCycleKeepsSnapshot ==
    Returned /\ err # "nil" => state = before

\* C2: after a successful refresh cycle, when liveVideo is non-null no
\* element of videos has liveVideo's id.
C2_VideosExcludeLiveVideo ==
    Returned /\ err = "nil" /\ state.LiveVideo # Nil =>
        \A i \in 1..Len(state.Videos) : state.Videos[i].Id # state.LiveVideo[1].Id

\* C3: when the channel lookup returns no items and no error, the next step
\* of refresh is to return an error: the nil channel is not dereferenced.
C3_ChannelNotFoundIsAnError ==
    [][pc = "fetchLiveVideoId" /\ channel = Nil =>
           pc' = "returned" /\ err' # "nil"]_vars

\* C4: the driver loop never stops: every step that ends a refresh cycle
\* hands control back to the loop, which sleeps and calls refresh again.
C4_LoopNeverStops ==
    [][/\ (pc \in RefreshPcs \cup {"refresh"}) /\ (pc' \notin RefreshPcs)
            => pc' = "returned"
       /\ pc = "returned" => pc' = "sleep"
       /\ pc = "sleep" => pc' = "refresh"]_vars

\* C5: a cycle in which the resolver returns the empty id and the playlist
\* is empty returns success with liveVideo null, videos empty and channel
\* the fetched channel, and never calls the video-batch fetch.
C5_EmptyCandidatesShortCircuit ==
    Returned /\ answers.live = Ok("") /\ answers.playlist = Ok(<<>>) =>
        /\ err = "nil"
        /\ state.LiveVideo = Nil
        /\ state.Videos = <<>>
        /\ state.Channel = answers.channel.v
        /\ state.Channel # Nil
        /\ answers.videos.st = "none"

C5_Witness ==
    /\ Returned /\ answers.live = Ok("") /\ answers.playlist = Ok(<<>>)
    /\ before.LiveVideo # Nil
    /\ Len(before.Videos) > 0
    /\ before.Channel # Nil /\ before.Channel # state.Channel

\* C6: in a successful cycle with a non-empty live id whose batch response
\* starts with the record of that id, liveVideo is that record and videos is
\* the rest of the response, in order.
C6_LiveVideoFirst ==
    /\ Returned /\ err = "nil" /\ answers.videos.st = "ok"
    /\ LiveId # "" /\ Len(Response) > 0 /\ Response[1].Id = LiveId
    => /\ state.LiveVideo = <<Response[1]>>
       /\ state.Videos = Tail(Response)

C6_Witness ==
    /\ Returned /\ err = "nil" /\ answers.videos.st = "ok"
    /\ LiveId # "" /\ Len(Response) = MaxResults + 1 /\ Response[1].Id = LiveId
    /\ Response[2].Id # LiveId
    /\ before.LiveVideo = Nil

\* C7: in a successful cycle whose batch response does not start with the
\* record of the live id, liveVideo is null and videos is the whole
\* response, in order.
C7_LiveVideoNotFirst ==
    /\ Returned /\ err = "nil" /\ answers.videos.st = "ok"
    /\ (Len(Response) = 0 \/ Response[1].Id # LiveId)
    => /\ state.LiveVideo = Nil
       /\ state.Videos = Response

C7_Witness ==
    /\ Returned /\ err = "nil" /\ answers.videos.st = "ok"
    /\ LiveId # "" /\ Len(Response) > 1 /\ Response[1].Id # LiveId
    /\ Response[2].Id = LiveId
    /\ before.LiveVideo # Nil

\* C8: a cycle that upstream answers exactly as it answered the cycle before
\* leaves the snapshot as that cycle left it.
C8_RefreshIdempotent ==
    Returned /\ same => state = before

C8_Witness ==
    /\ Returned /\ same /\ err = "nil"
    /\ state.LiveVideo # Nil /\ Len(state.Videos) > 0

\* C9: between cycles, channel is null as long as no refresh cycle has
\* returned success, and in every state it is non-null once one has.
C9_ChannelSetBySuccessOnly ==
    /\ succeeded => state.Channel # Nil
    /\ pc \in {"refresh", "returned", "sleep"} /\ ~succeeded => state.Channel = Nil

\* C10 as stated: videos never holds more records than the playlist cap.
C10_AtMostMaxResults ==
    Len(state.Videos) <= MaxResults

\* C10 as amended: videos never holds more than the playlist cap plus one
\* records (the live id is requested in the same batch as the playlist's).
C10_AtMostMaxResultsPlusLive ==
    Len(state.Videos) <= MaxResults + 1

C10_Witness ==
    /\ Len(state.Videos) = MaxResults + 1
    /\ Returned /\ err = "nil" /\ LiveId # ""
    /\ Len(answers.playlist.v) = MaxResults

NoDuplicate(s) ==
    s.LiveVideo # Nil =>
        \A i \in 1..Len(s.Videos) : s.Videos[i].Id # s.LiveVideo[1].Id

\* C11: whenever a request is being handled, the snapshot its handler would
\* encode holds no record in videos with liveVideo's id.
C11_ReadableSnapshotHasNoDuplicate ==
    Alive /\ serving > 0 => NoDuplicate(state)

\* C12: when a required flag is missing the process exits with a nonzero
\* code, having started neither the server nor a refresh cycle.
C12_MissingFlagExitsNonzero ==
    ~(flags.key /\ flags.channel) /\ pc = "exited" =>
        /\ exitCode \notin {-1, 0}
        /\ srv = "notStarted"
        /\ state = ZeroState /\ answers = NoAnswers

\* C13: once the server goroutine has failed to bind, the process still
\* runs, the main goroutine is in its loop and its next step can be taken
\* (unless refresh's own nil dereference has ended the process).
C13_BindFailureKeepsPolling ==
    srv = "failed" /\ pc # "crashed" =>
        /\ Alive
        /\ pc \in RefreshPcs \cup {"refresh", "returned", "sleep"}
        /\ ENABLED MainNext

C13_Witness ==
    /\ srv = "failed" /\ Returned /\ err = "nil"
    /\ before.Channel # Nil /\ state.Videos # before.Videos

\* C14: as long as the cycle has a fetch to make, the snapshot is as it was
\* when the cycle began.
C14_WritesAfterAllFetches ==
    pc \in {"fetchLiveVideoId", "fetchPlaylistItems", "buildVideoIds",
            "writeChannel", "fetchVideos"} => state = before

\* C15: a refresh cycle is entered only from the head of the loop, the head
\* of the loop is reached only from the sleep (or from the start of main),
\* and the sleep only from a call of refresh that has returned.
C15_CyclesDoNotOverlap ==
    [][/\ (pc' \in RefreshPcs /\ pc \notin RefreshPcs) => pc = "refresh"
       /\ pc' = "refresh" => pc \in {"refresh", "sleep", "goServer"}
       /\ pc' = "sleep" => pc \in {"sleep", "returned"}
       /\ pc' = "returned" => pc \in RefreshPcs \cup {"refresh", "returned"}]_vars

C15_Witness ==
    /\ serving = MaxHandlers /\ pc = "fetchVideos"
    /\ succeeded /\ err # "nil"

\* The candidate ids of the cycle, from what upstream answered.
CandidateIds ==
    (IF LiveId = "" THEN <<>> ELSE <<LiveId>>) \o
    [i \in 1..Len(answers.playlist.v) |-> answers.playlist.v[i].VideoId]

\* C16: the video-batch fetch is asked for the candidate ids, live id first
\* and then the playlist's in order, and a cycle that got a playlist makes
\* the fetch exactly when that list is not empty.
C16_BatchRequestsCandidateIds ==
    /\ pc = "fetchVideos" => videoIds = CandidateIds /\ videoIds # <<>>
    /\ Returned /\ answers.playlist.st = "ok" =>
           (answers.videos.st # "none" <=> CandidateIds # <<>>)

C16_Witness ==
    /\ pc = "fetchVideos" /\ liveVideoId # ""
    /\ Len(videoIds) = MaxResults + 1
    /\ videoIds[1] # videoIds[2]

\* C17: a refresh cycle that returns an error leaves liveVideo and videos as
\* they were before the call.
C17_FailedCycleKeepsVideos ==
    Returned /\ err # "nil" =>
        /\ state.LiveVideo = before.LiveVideo
        /\ state.Videos = before.Videos

C17_Witness ==
    /\ Returned /\ err = "videos.list"
    /\ before.LiveVideo # Nil /\ Len(before.Videos) > 0
    /\ state.Channel # before.Channel

\* C18: after a successful cycle liveVideo is null or a record with the
\* live id the resolver returned in that cycle; null when that id is empty.
C18_LiveVideoHasResolvedId ==
    Returned /\ err = "nil" =>
        /\ state.LiveVideo = Nil \/ state.LiveVideo[1].Id = LiveId
        /\ LiveId = "" => state.LiveVideo = Nil

C18_Witness ==
    /\ Returned /\ err = "nil"
    /\ state.LiveVideo # Nil
    /\ before.LiveVideo # Nil /\ before.LiveVideo # state.LiveVideo
====
